---- MODULE Spec2Model ----
(***************************************************************************)
(* A model of the bank ledger: the Account state machine                   *)
(* (src/src/bank/account.rs), the Transaction record                       *)
(* (src/src/bank/transaction.rs), the State orchestrator                   *)
(* (src/src/bank/state.rs) and the producer/consumer pair of main          *)
(* (src/src/main.rs).                                                      *)
(*                                                                         *)
(* Money is i64.  The amounts drawn below are tiny and at most MaxRecords  *)
(* records are applied, so no balance ever leaves the i64 range and the    *)
(* integer arithmetic of the code is modelled by unbounded integers.       *)
(***************************************************************************)
EXTENDS Integers, Sequences, FiniteSets, TLC

(***************************************************************************)
(* Bounds of the model.                                                    *)
(***************************************************************************)
\* Number of records applied to the account of one client (Spec).
MaxRecords == 6

\* Number of records applied to the ledger of all clients (LedgerSpec).
MaxRouted == 4

\* Number of records the input holds (FeedSpec).
MaxPushed == 3

\* Capacity of the channel (main.rs: CHANNEL_SIZE = 100), scaled down so that
\* the producer meets a full channel.
CHANNEL_SIZE == 2

\* Client ids (ClientId = u16) and transaction ids (TransactionId = u32) used.
Clients == {1, 2}
TxIds == {1, 2}

\* Amounts a record may carry, in units of 1/10000 (Money = i64).  A decoded
\* amount may be negative: deserialize_money casts any f64.
AmountValues == {-1, 1, 2}

(***************************************************************************)
(* Option<Money>: None is the empty set, Some(a) the singleton {a}.        *)
(***************************************************************************)
None == {}

Some(a) == {a}

unwrap_or(opt, default) == IF opt = None THEN default ELSE CHOOSE a \in opt : TRUE

(***************************************************************************)
(* transaction.rs                                                          *)
(***************************************************************************)
TransactionType == {"Deposit", "Withdrawal", "Dispute", "Resolve", "Chargeback"}

Transaction_new(tx_type, client_id, transaction_id, amount) ==
    [tx_type |-> tx_type, client_id |-> client_id,
     transaction_id |-> transaction_id, amount |-> amount]

get_type(tx) == tx.tx_type

get_amount(tx) == tx.amount

get_transaction_id(tx) == tx.transaction_id

get_client_id(tx) == tx.client_id

\* The records the input can hold.  Deposit and Withdrawal rows come with or
\* without an amount; the amount column of a Dispute, Resolve or Chargeback row
\* is never read by the code and is left empty here.
Transaction ==
    { Transaction_new(ty, c, id, am) :
        ty \in {"Deposit", "Withdrawal"}, c \in Clients, id \in TxIds,
        am \in {None} \cup { Some(a) : a \in AmountValues } }
    \cup
    { Transaction_new(ty, c, id, None) :
        ty \in {"Dispute", "Resolve", "Chargeback"}, c \in Clients, id \in TxIds }

(***************************************************************************)
(* account.rs                                                              *)
(***************************************************************************)
TransactionError ==
    {"InsufficientFunds", "AccountLocked", "InvalidTransaction", "AlreadyInDispute",
     "NotInDispute", "NotForThisAccount", "TransactionDoesNotExist"}

\* Result<(), TransactionError> together with the account as the call leaves it.
Ok(self) == [acc |-> self, res |-> "Ok"]

Err(self, e) == [acc |-> self, res |-> e]

\* HashMap::insert: the entry for key k is created or overwritten.
insert(map, k, v) == [x \in (DOMAIN map) \cup {k} |-> IF x = k THEN v ELSE map[x]]

Account_new(client_id) ==
    [client_id |-> client_id, available |-> 0, held |-> 0, total |-> 0,
     locked |-> FALSE, transactions |-> << >>, in_dispute |-> {}]

deposit(self, amount) ==
    [self EXCEPT !.available = @ + amount, !.total = @ + amount]

\* Mutant of withdraw: total is not reduced.
withdraw_keeps_total(self, amount) ==
    IF self.available >= amount
    THEN Ok([self EXCEPT !.available = @ - amount])
    ELSE Err(self, "InsufficientFunds")

\* Mutant of withdraw: the balance is reduced before the funds are checked.
withdraw_then_check(self, amount) ==
    IF self.available >= amount
    THEN Ok([self EXCEPT !.available = @ - amount, !.total = @ - amount])
    ELSE Err([self EXCEPT !.available = @ - amount], "InsufficientFunds")

withdraw(self, amount) ==
    IF self.available >= amount
    THEN Ok([self EXCEPT !.available = @ - amount, !.total = @ - amount])
    ELSE Err(self, "InsufficientFunds")

\* Mutant of dispute: the id is put in in_dispute before the record is looked up.
dispute_marks_first(self, transaction_id) ==
    IF transaction_id \in self.in_dispute
    THEN Err(self, "AlreadyInDispute")
    ELSE IF transaction_id \in DOMAIN self.transactions
    THEN LET tx == self.transactions[transaction_id]
             a == unwrap_or(get_amount(tx), 0)
         IN  CASE get_type(tx) = "Deposit" ->
                    Ok([self EXCEPT !.available = @ - a, !.held = @ + a,
                                    !.in_dispute = @ \cup {transaction_id}])
               [] get_type(tx) = "Withdrawal" ->
                    Ok([self EXCEPT !.held = @ + a,
                                    !.in_dispute = @ \cup {transaction_id}])
               [] OTHER -> Err(self, "InvalidTransaction")
    ELSE Err([self EXCEPT !.in_dispute = @ \cup {transaction_id}],
             "TransactionDoesNotExist")

\* Mutant of dispute: a disputed Deposit stays available.
dispute_keeps_available(self, transaction_id) ==
    IF transaction_id \in self.in_dispute
    THEN Err(self, "AlreadyInDispute")
    ELSE IF transaction_id \in DOMAIN self.transactions
    THEN LET tx == self.transactions[transaction_id]
             a == unwrap_or(get_amount(tx), 0)
         IN  CASE get_type(tx) = "Deposit" ->
                    Ok([self EXCEPT !.held = @ + a,
                                    !.in_dispute = @ \cup {transaction_id}])
               [] get_type(tx) = "Withdrawal" ->
                    Ok([self EXCEPT !.held = @ + a,
                                    !.in_dispute = @ \cup {transaction_id}])
               [] OTHER -> Err(self, "InvalidTransaction")
    ELSE Err(self, "TransactionDoesNotExist")

\* Mutant of dispute: no check that the transaction is already in dispute.
dispute_unchecked(self, transaction_id) ==
    IF FALSE
    THEN Err(self, "AlreadyInDispute")
    ELSE IF transaction_id \in DOMAIN self.transactions
    THEN LET tx == self.transactions[transaction_id]
             a == unwrap_or(get_amount(tx), 0)
         IN  CASE get_type(tx) = "Deposit" ->
                    Ok([self EXCEPT !.available = @ - a, !.held = @ + a,
                                    !.in_dispute = @ \cup {transaction_id}])
               [] get_type(tx) = "Withdrawal" ->
                    Ok([self EXCEPT !.held = @ + a,
                                    !.in_dispute = @ \cup {transaction_id}])
               [] OTHER -> Err(self, "InvalidTransaction")
    ELSE Err(self, "TransactionDoesNotExist")

dispute(self, transaction_id) ==
    IF transaction_id \in self.in_dispute
    THEN Err(self, "AlreadyInDispute")
    ELSE IF transaction_id \in DOMAIN self.transactions
    THEN LET tx == self.transactions[transaction_id]
             a == unwrap_or(get_amount(tx), 0)
         IN  CASE get_type(tx) = "Deposit" ->
                    Ok([self EXCEPT !.available = @ - a, !.held = @ + a,
                                    !.in_dispute = @ \cup {transaction_id}])
               [] get_type(tx) = "Withdrawal" ->
                    Ok([self EXCEPT !.held = @ + a,
                                    !.in_dispute = @ \cup {transaction_id}])
               [] OTHER -> Err(self, "InvalidTransaction")
    ELSE Err(self, "TransactionDoesNotExist")

\* Mutant of resolve: a resolved Deposit stays in in_dispute.
resolve_keeps_dispute(self, transaction_id) ==
    IF transaction_id \notin self.in_dispute
    THEN Err(self, "NotInDispute")
    ELSE IF transaction_id \in DOMAIN self.transactions
    THEN LET tx == self.transactions[transaction_id]
             a == unwrap_or(get_amount(tx), 0)
         IN  CASE get_type(tx) = "Deposit" ->
                    Ok([self EXCEPT !.available = @ + a, !.held = @ - a])
               [] get_type(tx) = "Withdrawal" ->
                    Ok([self EXCEPT !.held = @ - a,
                                    !.in_dispute = @ \ {transaction_id}])
               [] OTHER -> Err(self, "InvalidTransaction")
    ELSE Err(self, "TransactionDoesNotExist")

\* Mutant of resolve: the transaction is looked up before in_dispute is checked.
resolve_existence_first(self, transaction_id) ==
    IF transaction_id \notin DOMAIN self.transactions
    THEN Err(self, "TransactionDoesNotExist")
    ELSE IF transaction_id \notin self.in_dispute
    THEN Err(self, "NotInDispute")
    ELSE LET tx == self.transactions[transaction_id]
             a == unwrap_or(get_amount(tx), 0)
         IN  CASE get_type(tx) = "Deposit" ->
                    Ok([self EXCEPT !.available = @ + a, !.held = @ - a,
                                    !.in_dispute = @ \ {transaction_id}])
               [] get_type(tx) = "Withdrawal" ->
                    Ok([self EXCEPT !.held = @ - a,
                                    !.in_dispute = @ \ {transaction_id}])
               [] OTHER -> Err(self, "InvalidTransaction")

resolve(self, transaction_id) ==
    IF transaction_id \notin self.in_dispute
    THEN Err(self, "NotInDispute")
    ELSE IF transaction_id \in DOMAIN self.transactions
    THEN LET tx == self.transactions[transaction_id]
             a == unwrap_or(get_amount(tx), 0)
         IN  CASE get_type(tx) = "Deposit" ->
                    Ok([self EXCEPT !.available = @ + a, !.held = @ - a,
                                    !.in_dispute = @ \ {transaction_id}])
               [] get_type(tx) = "Withdrawal" ->
                    Ok([self EXCEPT !.held = @ - a,
                                    !.in_dispute = @ \ {transaction_id}])
               [] OTHER -> Err(self, "InvalidTransaction")
    ELSE Err(self, "TransactionDoesNotExist")

\* Mutant of chargeback: a charged back Deposit stays in total.
chargeback_keeps_total(self, transaction_id) ==
    IF transaction_id \notin self.in_dispute
    THEN Err(self, "NotInDispute")
    ELSE IF transaction_id \in DOMAIN self.transactions
    THEN LET tx == self.transactions[transaction_id]
             a == unwrap_or(get_amount(tx), 0)
         IN  CASE get_type(tx) = "Deposit" ->
                    Ok([self EXCEPT !.held = @ - a,
                                    !.locked = TRUE,
                                    !.in_dispute = @ \ {transaction_id}])
               [] get_type(tx) = "Withdrawal" ->
                    Ok([self EXCEPT !.available = @ + a, !.held = @ - a,
                                    !.locked = TRUE,
                                    !.in_dispute = @ \ {transaction_id}])
               [] OTHER -> Err(self, "InvalidTransaction")
    ELSE Err(self, "TransactionDoesNotExist")

\* Mutant of chargeback: a charged back Withdrawal is put back into total.
chargeback_restores_total(self, transaction_id) ==
    IF transaction_id \notin self.in_dispute
    THEN Err(self, "NotInDispute")
    ELSE IF transaction_id \in DOMAIN self.transactions
    THEN LET tx == self.transactions[transaction_id]
             a == unwrap_or(get_amount(tx), 0)
         IN  CASE get_type(tx) = "Deposit" ->
                    Ok([self EXCEPT !.held = @ - a, !.total = @ - a,
                                    !.locked = TRUE,
                                    !.in_dispute = @ \ {transaction_id}])
               [] get_type(tx) = "Withdrawal" ->
                    Ok([self EXCEPT !.available = @ + a, !.held = @ - a,
                                    !.total = @ + a,
                                    !.locked = TRUE,
                                    !.in_dispute = @ \ {transaction_id}])
               [] OTHER -> Err(self, "InvalidTransaction")
    ELSE Err(self, "TransactionDoesNotExist")

chargeback(self, transaction_id) ==
    IF transaction_id \notin self.in_dispute
    THEN Err(self, "NotInDispute")
    ELSE IF transaction_id \in DOMAIN self.transactions
    THEN LET tx == self.transactions[transaction_id]
             a == unwrap_or(get_amount(tx), 0)
         IN  CASE get_type(tx) = "Deposit" ->
                    Ok([self EXCEPT !.held = @ - a, !.total = @ - a,
                                    !.locked = TRUE,
                                    !.in_dispute = @ \ {transaction_id}])
               [] get_type(tx) = "Withdrawal" ->
                    Ok([self EXCEPT !.available = @ + a, !.held = @ - a,
                                    !.locked = TRUE,
                                    !.in_dispute = @ \ {transaction_id}])
               [] OTHER -> Err(self, "InvalidTransaction")
    ELSE Err(self, "TransactionDoesNotExist")

\* Mutant of process_withdrawal: the record is stored whatever withdraw returned.
process_withdrawal_always_stores(self, transaction) ==
    IF get_amount(transaction) = None
    THEN Err(self, "InvalidTransaction")
    ELSE LET w == withdraw(self, unwrap_or(get_amount(transaction), 0))
         IN  [w EXCEPT !.acc.transactions =
                         insert(@, get_transaction_id(transaction), transaction)]

\* The Withdrawal arm of process_transaction: the record is stored only when
\* withdraw returned Ok (the ? operator returns early otherwise).
process_withdrawal(self, transaction) ==
    IF get_amount(transaction) = None
    THEN Err(self, "InvalidTransaction")
    ELSE LET w == withdraw(self, unwrap_or(get_amount(transaction), 0))
         IN  IF w.res = "Ok"
             THEN Ok([w.acc EXCEPT !.transactions =
                         insert(@, get_transaction_id(transaction), transaction)])
             ELSE w

\* Mutant of process_deposit: a Deposit without an amount is stored as a
\* Deposit of 0.
process_deposit_without_amount(self, transaction) ==
    Ok([deposit(self, unwrap_or(get_amount(transaction), 0))
           EXCEPT !.transactions =
                    insert(@, get_transaction_id(transaction), transaction)])

\* The Deposit arm of process_transaction.
process_deposit(self, transaction) ==
    IF get_amount(transaction) = None
    THEN Err(self, "InvalidTransaction")
    ELSE Ok([deposit(self, unwrap_or(get_amount(transaction), 0))
                EXCEPT !.transactions =
                         insert(@, get_transaction_id(transaction), transaction)])

\* Mutant of process_transaction: a locked account is not refused.
process_transaction_ignores_lock(self, transaction) ==
    IF get_client_id(transaction) # self.client_id
    THEN Err(self, "NotForThisAccount")
    ELSE IF FALSE
    THEN Err(self, "AccountLocked")
    ELSE CASE get_type(transaction) = "Deposit" -> process_deposit(self, transaction)
           [] get_type(transaction) = "Withdrawal" -> process_withdrawal(self, transaction)
           [] get_type(transaction) = "Dispute" ->
                dispute(self, get_transaction_id(transaction))
           [] get_type(transaction) = "Resolve" ->
                resolve(self, get_transaction_id(transaction))
           [] get_type(transaction) = "Chargeback" ->
                chargeback(self, get_transaction_id(transaction))

process_transaction(self, transaction) ==
    IF get_client_id(transaction) # self.client_id
    THEN Err(self, "NotForThisAccount")
    ELSE IF self.locked
    THEN Err(self, "AccountLocked")
    ELSE CASE get_type(transaction) = "Deposit" -> process_deposit(self, transaction)
           [] get_type(transaction) = "Withdrawal" -> process_withdrawal(self, transaction)
           [] get_type(transaction) = "Dispute" ->
                dispute(self, get_transaction_id(transaction))
           [] get_type(transaction) = "Resolve" ->
                resolve(self, get_transaction_id(transaction))
           [] get_type(transaction) = "Chargeback" ->
                chargeback(self, get_transaction_id(transaction))

(***************************************************************************)
(* state.rs                                                                *)
(***************************************************************************)
\* HashMap::entry(client_id).or_insert(Account::new(client_id)), as the map it
\* leaves behind.
\* Mutant of get_or_create_account: the new account is Account::default(),
\* whose client_id is 0.
get_or_create_account_default(accs, client_id) ==
    IF client_id \in DOMAIN accs
    THEN accs
    ELSE insert(accs, client_id, [Account_new(client_id) EXCEPT !.client_id = 0])

get_or_create_account(accs, client_id) ==
    IF client_id \in DOMAIN accs
    THEN accs
    ELSE insert(accs, client_id, Account_new(client_id))

\* Mutant of State::process_transaction: a Dispute, Resolve or Chargeback is
\* applied to the account that recorded the transaction it names, whoever
\* sent it.
State_process_transaction_by_tx(accs, transaction) ==
    LET c == get_client_id(transaction)
        id == get_transaction_id(transaction)
        m == get_or_create_account(accs, c)
        holders == { d \in DOMAIN m : id \in DOMAIN m[d].transactions }
        d == IF get_type(transaction) \in {"Dispute", "Resolve", "Chargeback"}
                /\ holders # {} /\ c \notin holders
             THEN CHOOSE h \in holders : TRUE
             ELSE c
        r == process_transaction(m[d], [transaction EXCEPT !.client_id = d])
    IN  [accounts |-> [m EXCEPT ![d] = r.acc], res |-> r.res]

\* State::process_transaction: the account map and the result it leaves.
State_process_transaction(accs, transaction) ==
    LET c == get_client_id(transaction)
        m == get_or_create_account(accs, c)
        r == process_transaction(m[c], transaction)
    IN  [accounts |-> [m EXCEPT ![c] = r.acc], res |-> r.res]

(***************************************************************************)
(* The state of a run.                                                     *)
(*   accounts  State.accounts, a map from client id to Account             *)
(*   feed      the records buffered in the mpsc channel, oldest first      *)
(*   closed    the sender has been dropped                                 *)
(*   done      State::run has returned                                     *)
(*   last      the record State::process_transaction was last called with, *)
(*             and what the call returned                                  *)
(*   count     how many records have been applied                          *)
(* History variables, read by the properties only:                         *)
(*   pushed    the records sent into the channel, in order                 *)
(*   applied   the records applied to the ledger, in order                 *)
(*   dwOnly    per client: every record applied to the client so far was a *)
(*             Deposit or a Withdrawal                                     *)
(*   snap      the account as it was before the latest successful Dispute  *)
(*             of a Deposit, kept while that Dispute is the latest record  *)
(*             applied or is directly followed by a Resolve of the same id *)
(*   hist      per client, what has happened to the account so far:        *)
(*             negative  a record with a negative amount was applied       *)
(*             wdispute  a Dispute of a recorded Withdrawal succeeded      *)
(*             resolves  per transaction id, how many Resolves succeeded   *)
(*             charged   the transaction ids charged back                  *)
(***************************************************************************)
VARIABLES accounts, feed, closed, done, last, count, pushed, applied, dwOnly, snap,
          hist

vars ==
    <<accounts, feed, closed, done, last, count, pushed, applied, dwOnly, snap, hist>>

feedVars == <<feed, closed, done, pushed, applied>>

NoTx == Transaction_new("None", 0, 0, None)

NoSnap == [phase |-> "none", client_id |-> 0, transaction_id |-> 0, before |-> {}]

NoHist ==
    [negative |-> FALSE, wdispute |-> FALSE, resolves |-> [id \in TxIds |-> 0],
     charged |-> {}]

\* The account of client c as State::process_transaction finds it: the stored
\* one, or the fresh one get_or_create_account inserts.
AccountOf(accs, c) == get_or_create_account(accs, c)[c]

\* State::new: no accounts, nothing received.
Init ==
    /\ accounts = << >>
    /\ feed = << >>
    /\ closed = FALSE
    /\ done = FALSE
    /\ last = [tx |-> NoTx, res |-> "None"]
    /\ count = 0
    /\ pushed = << >>
    /\ applied = << >>
    /\ dwOnly = [c \in Clients |-> TRUE]
    /\ snap = NoSnap
    /\ hist = [c \in Clients |-> NoHist]

\* The update of snap by the application of record t with result res.
NextSnap(t, res) ==
    LET c == get_client_id(t)
        id == get_transaction_id(t)
        before == AccountOf(accounts, c)
    IN  IF /\ get_type(t) = "Dispute"
           /\ res = "Ok"
           /\ id \in DOMAIN before.transactions
           /\ get_type(before.transactions[id]) = "Deposit"
        THEN [phase |-> "disputed", client_id |-> c, transaction_id |-> id,
              before |-> {before}]
        ELSE IF /\ snap.phase = "disputed"
                /\ get_type(t) = "Resolve"
                /\ c = snap.client_id
                /\ id = snap.transaction_id
        THEN [snap EXCEPT !.phase = IF res = "Ok" THEN "resolved" ELSE "refused"]
        ELSE NoSnap

\* The update of hist[c] by the application of record t, addressed to c, with
\* result res.
NextHist(t, res) ==
    LET c == get_client_id(t)
        id == get_transaction_id(t)
        before == AccountOf(accounts, c)
        ok == res = "Ok"
    IN  [negative |-> \/ hist[c].negative
                      \/ \E a \in get_amount(t) : a < 0,
         wdispute |-> \/ hist[c].wdispute
                      \/ /\ ok
                         /\ get_type(t) = "Dispute"
                         /\ id \in DOMAIN before.transactions
                         /\ get_type(before.transactions[id]) = "Withdrawal",
         resolves |-> IF ok /\ get_type(t) = "Resolve"
                      THEN [hist[c].resolves EXCEPT ![id] = @ + 1]
                      ELSE hist[c].resolves,
         charged |-> IF ok /\ get_type(t) = "Chargeback"
                     THEN hist[c].charged \cup {id}
                     ELSE hist[c].charged]

\* One iteration of the loop of State::run on the received record t: the call
\* of State::process_transaction, whose error, if any, is only printed.
Consume(t) ==
    LET r == State_process_transaction(accounts, t)
    IN  /\ accounts' = r.accounts
        /\ last' = [tx |-> t, res |-> r.res]
        /\ count' = count + 1
        /\ dwOnly' = [dwOnly EXCEPT ![get_client_id(t)] =
                         @ /\ get_type(t) \in {"Deposit", "Withdrawal"}]
        /\ snap' = NextSnap(t, r.res)
        /\ hist' = [hist EXCEPT ![get_client_id(t)] = NextHist(t, r.res)]

(***************************************************************************)
(* Spec: the account of one client.  Any record addressed to the client    *)
(* may be the next one State::run hands to State::process_transaction, up  *)
(* to MaxRecords records; the channel is left out of this specification.   *)
(***************************************************************************)
OneClient == {1}

AccountRecords == { t \in Transaction : get_client_id(t) \in OneClient }

Process(t) ==
    /\ count < MaxRecords
    /\ Consume(t)
    /\ UNCHANGED feedVars

Next == \E t \in AccountRecords : Process(t)

Spec == Init /\ [][Next]_vars

(***************************************************************************)
(* LedgerSpec: the ledger of all clients.  Any record may be the next one  *)
(* State::run hands to State::process_transaction, up to MaxRouted         *)
(* records; the channel is left out of this specification.                 *)
(***************************************************************************)
Route(t) ==
    /\ count < MaxRouted
    /\ Consume(t)
    /\ UNCHANGED feedVars

LedgerNext == \E t \in Transaction : Route(t)

LedgerSpec == Init /\ [][LedgerNext]_vars

(***************************************************************************)
(* FeedSpec: the producer loop of main and the consumer loop of State::run *)
(* around the bounded channel.  The input holds at most MaxPushed records, *)
(* drawn from FeedRecords.                                                 *)
(***************************************************************************)
FeedRecords ==
    { Transaction_new("Deposit", c, 1, Some(1)) : c \in Clients }
    \cup { Transaction_new("Withdrawal", c, 1, Some(2)) : c \in Clients }
    \cup { Transaction_new(ty, c, 1, None) :
              ty \in {"Dispute", "Chargeback"}, c \in Clients }

\* Mutant of Send: the record is pushed whether or not the channel is full.
Send_ignores_capacity(t) ==
    /\ ~closed
    /\ Len(pushed) < MaxPushed
    /\ feed' = Append(feed, t)
    /\ pushed' = Append(pushed, t)
    /\ UNCHANGED <<accounts, closed, done, last, count, applied, dwOnly, snap, hist>>

\* sender.send(transaction).await: completes once the channel has a free slot.
Send(t) ==
    /\ ~closed
    /\ Len(pushed) < MaxPushed
    /\ Len(feed) < CHANNEL_SIZE
    /\ feed' = Append(feed, t)
    /\ pushed' = Append(pushed, t)
    /\ UNCHANGED <<accounts, closed, done, last, count, applied, dwOnly, snap, hist>>

\* drop(sender) once the input is exhausted.
Close ==
    /\ ~closed
    /\ closed' = TRUE
    /\ UNCHANGED <<accounts, feed, done, last, count, pushed, applied, dwOnly, snap,
                   hist>>

\* Mutant of Recv: the newest buffered record is received first.
Recv_newest_first ==
    /\ ~done
    /\ feed # << >>
    /\ Consume(feed[Len(feed)])
    /\ feed' = SubSeq(feed, 1, Len(feed) - 1)
    /\ applied' = Append(applied, feed[Len(feed)])
    /\ UNCHANGED <<closed, done, pushed>>

\* receiver.recv() returns Some(transaction): one iteration of the loop of run.
Recv ==
    /\ ~done
    /\ feed # << >>
    /\ Consume(Head(feed))
    /\ feed' = Tail(feed)
    /\ applied' = Append(applied, Head(feed))
    /\ UNCHANGED <<closed, done, pushed>>

\* Mutant of Finish: run returns as soon as the sender is dropped.
Finish_on_close ==
    /\ ~done
    /\ closed
    /\ done' = TRUE
    /\ UNCHANGED <<accounts, feed, closed, last, count, pushed, applied, dwOnly, snap,
                   hist>>

\* receiver.recv() returns None (channel empty and sender dropped): run returns.
Finish ==
    /\ ~done
    /\ feed = << >>
    /\ closed
    /\ done' = TRUE
    /\ UNCHANGED <<accounts, feed, closed, last, count, pushed, applied, dwOnly, snap,
                   hist>>

FeedNext ==
    \/ \E t \in FeedRecords : Send(t)
    \/ Close
    \/ Recv
    \/ Finish

FeedSpec == Init /\ [][FeedNext]_vars

\* The two tasks are scheduled by the tokio runtime: a task that can take a
\* step eventually takes one.
FairFeedSpec ==
    /\ FeedSpec
    /\ WF_vars((\E t \in FeedRecords : Send(t)) \/ Close)
    /\ WF_vars(Recv \/ Finish)

(***************************************************************************)
(* Properties.  In an action formula, Applied says that the step applied a *)
(* record; the record is then last'.tx and the result last'.res, Pre is    *)
(* the account the call started from and Post the account it left.         *)
(***************************************************************************)
Applied == count' = count + 1

Pre == AccountOf(accounts, get_client_id(last'.tx))

Post == accounts'[get_client_id(last'.tx)]

\* The stored record a Dispute, Resolve or Chargeback names, and its amount.
Named == Pre.transactions[get_transaction_id(last'.tx)]

NamedAmount == unwrap_or(get_amount(Named), 0)

NamesRecorded == get_transaction_id(last'.tx) \in DOMAIN Pre.transactions

\* The account of the record applied last, in the current state.
LastAccount == accounts[get_client_id(last.tx)]

\* C1: while every record applied to an account was a Deposit or a Withdrawal
\* (whatever the amounts, the ids and the results), the account has
\* total = available + held and held = 0.
C1_DepositWithdrawalOnly ==
    \A c \in DOMAIN accounts :
        dwOnly[c] => /\ accounts[c].total = accounts[c].available + accounts[c].held
                     /\ accounts[c].held = 0

\* A Withdrawal has just failed on an account that saw only Deposits and
\* Withdrawals and holds a recorded Deposit and a recorded Withdrawal.
C1_Witness ==
    /\ get_type(last.tx) = "Withdrawal"
    /\ last.res = "InsufficientFunds"
    /\ dwOnly[get_client_id(last.tx)]
    /\ \E i, j \in DOMAIN LastAccount.transactions :
          /\ get_type(LastAccount.transactions[i]) = "Deposit"
          /\ get_type(LastAccount.transactions[j]) = "Withdrawal"

\* C2: a Withdrawal of more than the available balance of an unlocked account
\* fails with InsufficientFunds, leaves available, held and total as they were
\* and leaves the transactions map as it was.
C2_InsufficientFunds ==
    [][ ( /\ Applied
          /\ get_type(last'.tx) = "Withdrawal"
          /\ get_amount(last'.tx) # None
          /\ ~Pre.locked
          /\ unwrap_or(get_amount(last'.tx), 0) > Pre.available )
        => /\ last'.res = "InsufficientFunds"
           /\ Post.available = Pre.available
           /\ Post.held = Pre.held
           /\ Post.total = Pre.total
           /\ Post.transactions = Pre.transactions ]_vars

\* A Withdrawal of more than a positive available balance has just failed, and
\* its id is not a key of the transactions map.
C2_Witness ==
    /\ get_type(last.tx) = "Withdrawal"
    /\ last.res = "InsufficientFunds"
    /\ LastAccount.available > 0
    /\ get_transaction_id(last.tx) \notin DOMAIN LastAccount.transactions

\* C3: in every reachable state of an account, a call of
\* Account::process_transaction with any record (a record of another client
\* included) that returns an error returns the account unchanged in every field.
C3_ErrorLeavesAccount ==
    \A c \in Clients : \A t \in Transaction :
        LET self == AccountOf(accounts, c)
            r == process_transaction(self, t)
        IN  /\ r.res \in TransactionError \cup {"Ok"}
            /\ r.res # "Ok" => r.acc = self

\* A call has just returned an error on an account with a transaction in
\* dispute, and in this state a record of another client is refused too.
C3_Witness ==
    /\ last.res \in TransactionError
    /\ LastAccount.in_dispute # {}
    /\ \E t \in Transaction :
          process_transaction(LastAccount, t).res = "NotForThisAccount"

\* C4: a successful Dispute of a recorded Deposit of amount A takes exactly A
\* from available, adds exactly A to held, leaves total and locked as they were
\* and adds the transaction id to in_dispute.
C4_DisputeDeposit ==
    [][ ( /\ Applied
          /\ get_type(last'.tx) = "Dispute"
          /\ last'.res = "Ok"
          /\ NamesRecorded
          /\ get_type(Named) = "Deposit" )
        => /\ Post.available = Pre.available - NamedAmount
           /\ Post.held = Pre.held + NamedAmount
           /\ Post.total = Pre.total
           /\ Post.locked = Pre.locked
           /\ get_transaction_id(last'.tx) \notin Pre.in_dispute
           /\ Post.in_dispute = Pre.in_dispute \cup {get_transaction_id(last'.tx)} ]_vars

\* A Dispute of a recorded Deposit has just succeeded.
C4_Witness ==
    /\ get_type(last.tx) = "Dispute"
    /\ last.res = "Ok"
    /\ get_type(LastAccount.transactions[get_transaction_id(last.tx)]) = "Deposit"
    /\ LastAccount.held # 0

\* C5: a Resolve that directly follows a successful Dispute of a recorded
\* Deposit and names the same id succeeds, and leaves available, held, total,
\* locked and in_dispute exactly as they were before the Dispute.
C5_DisputeResolveRoundTrip ==
    /\ snap.phase # "refused"
    /\ snap.phase = "resolved" =>
          \A b \in snap.before :
              LET a == accounts[snap.client_id]
              IN  /\ a.available = b.available
                  /\ a.held = b.held
                  /\ a.total = b.total
                  /\ a.locked = b.locked
                  /\ a.in_dispute = b.in_dispute

\* A Resolve has just succeeded directly after the Dispute of the same Deposit,
\* on an account that holds other funds and another disputed transaction.
C5_Witness ==
    /\ snap.phase = "resolved"
    /\ get_type(last.tx) = "Resolve"
    /\ last.res = "Ok"
    /\ LastAccount.in_dispute # {}
    /\ LastAccount.available # 0

\* C6: a successful Chargeback of a disputed Deposit of amount A takes exactly A
\* from held and exactly A from total, leaves available as it was, sets locked
\* and removes the transaction id from in_dispute.
C6_ChargebackDeposit ==
    [][ ( /\ Applied
          /\ get_type(last'.tx) = "Chargeback"
          /\ last'.res = "Ok"
          /\ NamesRecorded
          /\ get_type(Named) = "Deposit" )
        => /\ Post.held = Pre.held - NamedAmount
           /\ Post.total = Pre.total - NamedAmount
           /\ Post.available = Pre.available
           /\ Post.locked = TRUE
           /\ get_transaction_id(last'.tx) \in Pre.in_dispute
           /\ Post.in_dispute = Pre.in_dispute \ {get_transaction_id(last'.tx)} ]_vars

\* A Chargeback of a disputed Deposit has just succeeded.
C6_Witness ==
    /\ get_type(last.tx) = "Chargeback"
    /\ last.res = "Ok"
    /\ get_type(LastAccount.transactions[get_transaction_id(last.tx)]) = "Deposit"
    /\ LastAccount.locked

\* C7: a locked account stays locked, and every record applied to it, of any
\* type and naming any id, fails with AccountLocked and leaves the account
\* (available, held, total, transactions, in_dispute) as it was.
C7_LockedForever ==
    [][ \A c \in DOMAIN accounts :
          accounts[c].locked =>
             /\ c \in DOMAIN accounts'
             /\ accounts'[c].locked
             /\ (Applied /\ get_client_id(last'.tx) = c) =>
                   /\ last'.res = "AccountLocked"
                   /\ accounts'[c] = accounts[c] ]_vars

\* A Resolve naming a transaction that is still in dispute has just been
\* refused by a locked account.
C7_Witness ==
    /\ get_type(last.tx) = "Resolve"
    /\ last.res = "AccountLocked"
    /\ LastAccount.locked
    /\ get_transaction_id(last.tx) \in LastAccount.in_dispute

\* C8: a successful Dispute of a recorded Withdrawal of amount A adds A to held
\* and leaves available and total as they were; a successful Chargeback of it
\* adds A to available, takes A from held, leaves total as it was and sets
\* locked.
C8_DisputedWithdrawal ==
    [][ /\ ( /\ Applied
             /\ get_type(last'.tx) = "Dispute"
             /\ last'.res = "Ok"
             /\ NamesRecorded
             /\ get_type(Named) = "Withdrawal" )
           => /\ Post.held = Pre.held + NamedAmount
              /\ Post.available = Pre.available
              /\ Post.total = Pre.total
        /\ ( /\ Applied
             /\ get_type(last'.tx) = "Chargeback"
             /\ last'.res = "Ok"
             /\ NamesRecorded
             /\ get_type(Named) = "Withdrawal" )
           => /\ Post.available = Pre.available + NamedAmount
              /\ Post.held = Pre.held - NamedAmount
              /\ Post.total = Pre.total
              /\ Post.locked = TRUE ]_vars

\* A Chargeback of a disputed Withdrawal has just succeeded and has left
\* total different from available + held.
C8_Witness ==
    /\ get_type(last.tx) = "Chargeback"
    /\ last.res = "Ok"
    /\ get_type(LastAccount.transactions[get_transaction_id(last.tx)]) = "Withdrawal"
    /\ LastAccount.locked
    /\ LastAccount.total # LastAccount.available + LastAccount.held

\* C9, as claimed: on an unlocked account a Dispute, a Resolve or a Chargeback
\* naming an id that is not a key of transactions fails with
\* TransactionDoesNotExist.
C9_UnrecordedFailsDoesNotExist ==
    [][ ( /\ Applied
          /\ get_type(last'.tx) \in {"Dispute", "Resolve", "Chargeback"}
          /\ ~Pre.locked
          /\ ~NamesRecorded )
        => last'.res = "TransactionDoesNotExist" ]_vars

\* C9, amended: on an unlocked account a Dispute naming an id that is not a key
\* of transactions fails with TransactionDoesNotExist; a Resolve or a Chargeback
\* naming such an id fails with NotInDispute, and the account is left as it was.
C9_UnrecordedFails ==
    [][ ( /\ Applied
          /\ get_type(last'.tx) \in {"Dispute", "Resolve", "Chargeback"}
          /\ ~Pre.locked
          /\ ~NamesRecorded )
        => /\ get_type(last'.tx) = "Dispute" => last'.res = "TransactionDoesNotExist"
           /\ get_type(last'.tx) \in {"Resolve", "Chargeback"} =>
                 last'.res = "NotInDispute"
           /\ Post = Pre ]_vars

\* A Resolve naming an unrecorded id has just failed on an unlocked account
\* that has another transaction in dispute.
C9_Witness ==
    /\ get_type(last.tx) = "Resolve"
    /\ last.res = "NotInDispute"
    /\ ~LastAccount.locked
    /\ get_transaction_id(last.tx) \notin DOMAIN LastAccount.transactions
    /\ LastAccount.in_dispute # {}

\* C10: on an unlocked account a Dispute naming an id in in_dispute fails with
\* AlreadyInDispute, and a Resolve or a Chargeback naming a recorded id that is
\* not in in_dispute fails with NotInDispute; so a Dispute succeeds only on an
\* id that is not in dispute, and a Resolve or a Chargeback only on one that is.
C10_DisputeMembership ==
    [][ Applied =>
          LET id == get_transaction_id(last'.tx)
              ty == get_type(last'.tx)
          IN  /\ (ty = "Dispute" /\ ~Pre.locked /\ id \in Pre.in_dispute)
                    => last'.res = "AlreadyInDispute"
              /\ ( /\ ty \in {"Resolve", "Chargeback"}
                   /\ ~Pre.locked
                   /\ NamesRecorded
                   /\ id \notin Pre.in_dispute )
                    => last'.res = "NotInDispute"
              /\ (ty = "Dispute" /\ last'.res = "Ok")
                    => id \notin Pre.in_dispute /\ id \in Post.in_dispute
              /\ (ty \in {"Resolve", "Chargeback"} /\ last'.res = "Ok")
                    => id \in Pre.in_dispute /\ id \notin Post.in_dispute ]_vars

\* A second Dispute of a disputed transaction has just failed, and in this
\* state a Resolve of the other, recorded and undisputed, id would be refused.
C10_Witness ==
    /\ get_type(last.tx) = "Dispute"
    /\ last.res = "AlreadyInDispute"
    /\ \E id \in DOMAIN LastAccount.transactions \ LastAccount.in_dispute :
          process_transaction(LastAccount,
              Transaction_new("Resolve", get_client_id(last.tx), id, None)).res
            = "NotInDispute"

\* C11: in every state of an account reached by records with non-negative
\* amounts in which no Dispute targeted a Withdrawal, available >= 0 and
\* held >= 0.
C11_NonNegativeBalances ==
    \A c \in DOMAIN accounts :
        (~hist[c].negative /\ ~hist[c].wdispute) =>
            /\ accounts[c].available >= 0
            /\ accounts[c].held >= 0

\* C12: in every state of an account reached by records in which every
\* successful Dispute targeted a record that was a Deposit when it was
\* disputed, total = available + held.
C12_TotalIsAvailablePlusHeld ==
    \A c \in DOMAIN accounts :
        ~hist[c].wdispute =>
            accounts[c].total = accounts[c].available + accounts[c].held

\* C13: the records applied so far, followed by the records still buffered,
\* are exactly the records pushed, in the order they were pushed: records are
\* applied in push order and no record is applied that was not pushed.
C13_AppliedInPushOrder == applied \o feed = pushed

\* Two different records have been applied and a third is still buffered.
C13_Witness ==
    /\ Len(applied) >= 2
    /\ applied[1] # applied[2]
    /\ feed # << >>
    /\ feed[1] # applied[2]

\* C14: once the producer has closed the feed the consumer eventually
\* terminates, and when it has terminated every record pushed has been applied
\* exactly once, failed records included.
C14_DrainsAndTerminates ==
    /\ closed ~> done
    /\ [](done => /\ applied = pushed
                  /\ count = Len(pushed)
                  /\ feed = << >>)

\* run has returned after applying MaxPushed records, of which one succeeded
\* and the last one failed.
C14_Witness ==
    /\ done
    /\ Len(applied) = MaxPushed
    /\ last.res \in TransactionError
    /\ \E c \in DOMAIN accounts : accounts[c].total # 0

\* C15: the account map holds an account for exactly the client ids of the
\* records consumed; each account is stored under its own client_id, an account
\* whose records all failed is as Account::new made it, and no call through
\* State::process_transaction returns NotForThisAccount.
C15_AccountPerClient ==
    /\ DOMAIN accounts = { get_client_id(applied[i]) : i \in 1..Len(applied) }
    /\ \A c \in DOMAIN accounts :
          /\ accounts[c].client_id = c
          /\ DOMAIN accounts[c].transactions = {} => accounts[c] = Account_new(c)
    /\ last.res # "NotForThisAccount"

\* run has returned with two accounts, one of them with a balance and one
\* whose only records failed.
C15_Witness ==
    /\ done
    /\ Cardinality(DOMAIN accounts) = 2
    /\ \E c, d \in DOMAIN accounts :
          /\ accounts[c] = Account_new(c)
          /\ accounts[d].total # 0
    /\ last.res \in TransactionError

\* C16: the feed never holds more than CHANNEL_SIZE records; a record is pushed
\* only while the feed is below capacity and pulled only while it is not empty;
\* only a step of the consumer changes the account map.
C16_BoundedFeed ==
    [][ /\ Len(feed') <= CHANNEL_SIZE
        /\ pushed' # pushed => Len(feed) < CHANNEL_SIZE /\ accounts' = accounts
        /\ applied' # applied => feed # << >> /\ feed' = Tail(feed)
        /\ closed' # closed => accounts' = accounts
        /\ accounts' # accounts => applied' # applied ]_vars

\* The feed is full while the producer has more records to push.
C16_Witness ==
    /\ Len(feed) = CHANNEL_SIZE
    /\ ~closed
    /\ Len(pushed) < MaxPushed

\* C17: in every reachable state of an account in_dispute is a subset of the
\* keys of transactions, and no Resolve or Chargeback returns
\* TransactionDoesNotExist.
C17_DisputedAreRecorded ==
    \A c \in Clients :
        LET self == AccountOf(accounts, c)
        IN  /\ self.in_dispute \subseteq DOMAIN self.transactions
            /\ \A id \in TxIds : \A ty \in {"Resolve", "Chargeback"} :
                  process_transaction(self, Transaction_new(ty, c, id, None)).res
                    # "TransactionDoesNotExist"

\* A Resolve naming an unrecorded id has just been refused by an account that
\* has a transaction in dispute.
C17_Witness ==
    /\ get_type(last.tx) = "Resolve"
    /\ last.res = "NotInDispute"
    /\ get_transaction_id(last.tx) \notin DOMAIN LastAccount.transactions
    /\ LastAccount.in_dispute # {}
    /\ ~LastAccount.locked

\* C18: in every reachable state of an account every stored record is a Deposit
\* or a Withdrawal and carries an amount; a Dispute, Resolve or Chargeback,
\* successful or not, leaves transactions as it was and never returns
\* InvalidTransaction.
C18_OnlyDepositsAndWithdrawalsStored ==
    \A c \in Clients :
        LET self == AccountOf(accounts, c)
        IN  /\ \A id \in DOMAIN self.transactions :
                  /\ get_type(self.transactions[id]) \in {"Deposit", "Withdrawal"}
                  /\ get_amount(self.transactions[id]) # None
            /\ \A id \in TxIds : \A ty \in {"Dispute", "Resolve", "Chargeback"} :
                  LET r == process_transaction(self, Transaction_new(ty, c, id, None))
                  IN  /\ r.acc.transactions = self.transactions
                      /\ r.res # "InvalidTransaction"

\* A Chargeback has just succeeded on an account that has a Deposit and a
\* Withdrawal recorded.
C18_Witness ==
    /\ get_type(last.tx) = "Chargeback"
    /\ last.res = "Ok"
    /\ \E i, j \in DOMAIN LastAccount.transactions :
          /\ get_type(LastAccount.transactions[i]) = "Deposit"
          /\ get_type(LastAccount.transactions[j]) = "Withdrawal"

\* C19: a successful Resolve leaves the id out of in_dispute and the account
\* unlocked, and while the account stays unlocked and the id undisputed a
\* Dispute of a resolved id succeeds again; once an id has been charged back no
\* Dispute, Resolve or Chargeback of it succeeds.
C19_TransactionLifecycle ==
    [][ Applied =>
          LET c == get_client_id(last'.tx)
              id == get_transaction_id(last'.tx)
              ty == get_type(last'.tx)
          IN  /\ (ty = "Resolve" /\ last'.res = "Ok")
                    => id \notin Post.in_dispute /\ ~Post.locked
              /\ \A i \in TxIds :
                    (hist'[c].resolves[i] > 0 /\ ~Post.locked /\ i \notin Post.in_dispute)
                    => process_transaction(Post,
                           Transaction_new("Dispute", c, i, None)).res = "Ok"
              /\ (ty \in {"Dispute", "Resolve", "Chargeback"} /\ id \in hist[c].charged)
                    => last'.res # "Ok" ]_vars

\* A transaction was disputed and resolved, disputed again and charged back,
\* and a further Dispute of it has just been refused.
C19_Witness ==
    /\ get_type(last.tx) = "Dispute"
    /\ last.res = "AccountLocked"
    /\ get_transaction_id(last.tx) \in hist[get_client_id(last.tx)].charged
    /\ hist[get_client_id(last.tx)].resolves[get_transaction_id(last.tx)] > 0

\* The stored amounts of the transactions ids names, added up.
RECURSIVE SumOfAmounts(_, _)
SumOfAmounts(transactions, ids) ==
    IF ids = {}
    THEN 0
    ELSE LET id == CHOOSE i \in ids : TRUE
         IN  unwrap_or(get_amount(transactions[id]), 0)
               + SumOfAmounts(transactions, ids \ {id})

\* C20: in every reachable state of an account held is the sum of the stored
\* amounts of the transactions in in_dispute.
C20_HeldIsSumOfDisputed ==
    \A c \in DOMAIN accounts :
        accounts[c].held = SumOfAmounts(accounts[c].transactions, accounts[c].in_dispute)

\* C21: a record addressed to client c, applied through
\* State::process_transaction, leaves the account of every other client as it
\* was; a Dispute, Resolve or Chargeback of c naming an id that c's account has
\* not recorded fails with TransactionDoesNotExist or NotInDispute, also when
\* another client's account has recorded the id; and a record for an unlocked
\* account is never refused with AccountLocked because another account is
\* locked.
C21_OtherAccountsUntouched ==
    [][ Applied =>
          LET c == get_client_id(last'.tx)
              ty == get_type(last'.tx)
          IN  /\ DOMAIN accounts' = DOMAIN accounts \cup {c}
              /\ \A d \in DOMAIN accounts \ {c} : accounts'[d] = accounts[d]
              /\ (ty \in {"Dispute", "Resolve", "Chargeback"} /\ ~Pre.locked
                     /\ ~NamesRecorded)
                    => /\ last'.res = IF ty = "Dispute"
                                      THEN "TransactionDoesNotExist"
                                      ELSE "NotInDispute"
                       /\ Post = Pre
              /\ ~Pre.locked => last'.res # "AccountLocked" ]_vars

\* A Dispute of one client naming a transaction recorded only in the locked
\* account of another client has just failed with TransactionDoesNotExist.
C21_Witness ==
    /\ get_type(last.tx) = "Dispute"
    /\ last.res = "TransactionDoesNotExist"
    /\ \E d \in DOMAIN accounts \ {get_client_id(last.tx)} :
          /\ accounts[d].locked
          /\ get_transaction_id(last.tx) \in DOMAIN accounts[d].transactions

====
